---- MODULE Spec2Model ----
(***************************************************************************)
(* A model of pydash/api/functions.py: the function adapters After, Curry, *)
(* Once, Partial, Debounce and Throttle and the factories that build them. *)
(*                                                                         *)
(* Each adapter instance owns its state, so every adapter has its own      *)
(* specification (SpecAfter, SpecOnce, ...) over the instance's fields,    *)
(* the clock, and a log `hist` of the calls made to the instance.  The     *)
(* wrapped callable `func` is opaque: each time the adapter invokes it,    *)
(* the environment chooses whether it returns a value or raises.           *)
(***************************************************************************)
EXTENDS Integers, Sequences, FiniteSets, TLC

VARIABLES
    now,        \* the reading utilities.now() gives at this moment (ms)
    given,      \* the arguments the factory was called with
    hist,       \* one record per call made to the adapter, oldest first
    After,      \* the After instance: n
    Once,       \* the Once instance: result, called
    Partial,    \* the Partial instance: args, from_right
    Curry,      \* every Curry instance made so far: arity, args, kargs
    Throttle,   \* the Throttle instance: wait, last_result, last_execution
    Debounce,   \* the Debounce instance: wait, max_wait, last_result,
                \* last_call, last_execution
    funcs,      \* the funcs that the wrapper compose() returns closes over
    threads     \* the calls in progress when calls to Once interleave

vars == <<now, given, hist, After, Once, Partial, Curry, Throttle, Debounce,
          funcs, threads>>

----------------------------------------------------------------------------
(* Bounds of the model.                                                    *)

MaxCalls == 4       \* calls made to an After or Once instance
MaxN == 3           \* largest n given to after()
MaxPartialCalls == 2 \* calls made to a Partial instance
MaxTimedCalls == 3  \* calls made to a Throttle or Debounce instance
MaxTime == 4        \* last clock reading
MaxWait == 2        \* largest wait / max_wait given
MaxArity == 2       \* largest arity given to curry()
MaxCurried == 3     \* Curry instances alive at once
MaxFuncs == 3       \* functions given to compose()
MaxComposeCalls == 2 \* calls made to a composed function
MaxThreads == 2     \* calls to one Once made from threads of their own

----------------------------------------------------------------------------
(* Python values.  A value whose type matters is a tagged record.          *)

PyNone == [tag |-> "none", val |-> 0]
PyFalse == [tag |-> "bool", val |-> 0]
PyInt(k) == [tag |-> "int", val |-> k]
PyNumStr(k) == [tag |-> "numstr", val |-> k]   \* str(k), e.g. "2"
PyBadStr == [tag |-> "badstr", val |-> 0]      \* a string int() rejects
PyTuple(a) == [tag |-> "tuple", val |-> a]
PyDict(d) == [tag |-> "dict", val |-> d]

\* bool(v) for the values above
Truthy(v) == v.tag = "int" /\ v.val # 0

\* What the wrapped callable does when invoked: returns a value or raises.
None == "None"
Raised == "raised"
NotInvoked == "-"
FReturns == {"r1", "r2"}
FOutcomes == FReturns \cup {Raised}

\* the empty dict; a dict is a function from its keyword names
EmptyDict == [k \in {} |-> 0]

\* the (*args, **kargs) of a call
Pack(a, k) == [args |-> a, kargs |-> k]
NoArgs == Pack(<<>>, EmptyDict)

\* Arguments given to the adapters that only pass them through.
PassedPacks == {NoArgs, Pack(<<1>>, [k \in {"key"} |-> 2])}

Unused == [tag |-> "unused"]

----------------------------------------------------------------------------
(* After                                                                   *)

\* int(n): the integer, or the exception int() raises
IntOf(n) ==
    CASE n.tag = "int" -> [err |-> "", val |-> n.val]
      [] n.tag = "numstr" -> [err |-> "", val |-> n.val]
      [] n.tag = "badstr" -> [err |-> "ValueError", val |-> 0]
      [] OTHER -> [err |-> "TypeError", val |-> 0]

\* After.__init__: the instance, or no instance when the constructor raises
After_init(n) ==
    LET p == IntOf(n) IN
    IF p.err = "TypeError" THEN [ok |-> FALSE, n |-> 0]
    ELSE IF p.err = "ValueError" \/ ~(p.val >= 0) THEN [ok |-> TRUE, n |-> 0]
    ELSE [ok |-> TRUE, n |-> p.val]

After_count_floor(n) == IF n > 0 THEN n - 1 ELSE n
\* line 27: self.n -= 1
After_count(n) == n - 1

After_gate_offbyone(n) == n < 0
\* the test of After.__call__, on the count already decremented
After_gate(n) == n < 1

NInputs ==
    {PyInt(k) : k \in -1..MaxN} \cup {PyNumStr(2), PyBadStr, PyNone}

InitAfter ==
    /\ now = 0
    /\ \E n \in NInputs : /\ given = [n |-> n]
                          /\ After = After_init(n)
    /\ hist = <<>>
    /\ Once = Unused /\ Partial = Unused /\ Curry = Unused
    /\ Throttle = Unused /\ Debounce = Unused
    /\ funcs = Unused /\ threads = Unused

\* After.__call__(*args, **kargs)
After_call(pack, fout) ==
    /\ After.ok
    /\ Len(hist) < MaxCalls
    /\ LET n1 == After_count(After.n) IN
       /\ After' = [After EXCEPT !.n = n1]
       /\ IF After_gate(n1)
          THEN hist' = Append(hist, [t |-> now, pack |-> pack, invoked |-> TRUE,
                                     fpack |-> pack, fout |-> fout, out |-> fout])
          ELSE /\ fout = Raised   \* func is not run: one transition only
               /\ hist' = Append(hist, [t |-> now, pack |-> pack, invoked |-> FALSE,
                                        fpack |-> NoArgs, fout |-> NotInvoked,
                                        out |-> None])
    /\ UNCHANGED <<now, given, Once, Partial, Curry, Throttle, Debounce,
                 funcs, threads>>

NextAfter == \E pack \in PassedPacks, fout \in FOutcomes : After_call(pack, fout)

SpecAfter == InitAfter /\ [][NextAfter]_vars

----------------------------------------------------------------------------
(* Once                                                                    *)

\* Once.__init__
Once_init == [result |-> None, called |-> FALSE]

Once_raised_marked(self) == [self EXCEPT !.called = TRUE]
\* line 69 when func raises: neither assignment happens
Once_raised(self) == self

Once_guard_open(self) == TRUE
\* the test of Once.__call__
Once_guard(self) == ~self.called

InitOnce ==
    /\ now = 0
    /\ given = [func |-> "f"]
    /\ Once = Once_init
    /\ hist = <<>>
    /\ After = Unused /\ Partial = Unused /\ Curry = Unused
    /\ Throttle = Unused /\ Debounce = Unused
    /\ funcs = Unused /\ threads = Unused

\* Once.__call__(*args, **kargs)
Once_call(pack, fout) ==
    /\ Len(hist) < MaxCalls
    /\ IF Once_guard(Once)
       THEN IF fout = Raised
            THEN /\ Once' = Once_raised(Once)
                 /\ hist' = Append(hist, [t |-> now, pack |-> pack, invoked |-> TRUE,
                                          fpack |-> pack, fout |-> fout, out |-> Raised])
            ELSE /\ Once' = [result |-> fout, called |-> TRUE]
                 /\ hist' = Append(hist, [t |-> now, pack |-> pack, invoked |-> TRUE,
                                          fpack |-> pack, fout |-> fout, out |-> fout])
       ELSE /\ fout = Raised
            /\ Once' = Once
            /\ hist' = Append(hist, [t |-> now, pack |-> pack, invoked |-> FALSE,
                                     fpack |-> NoArgs, fout |-> NotInvoked,
                                     out |-> Once.result])
    /\ UNCHANGED <<now, given, After, Partial, Curry, Throttle, Debounce,
                 funcs, threads>>

NextOnce == \E pack \in PassedPacks, fout \in FOutcomes : Once_call(pack, fout)

SpecOnce == InitOnce /\ [][NextOnce]_vars

----------------------------------------------------------------------------
(* Once called from several threads.  Each call runs on a thread of its    *)
(* own and is at one line of Once.__call__; the interpreter may switch     *)
(* threads between any two steps, and while func runs.  A call made by     *)
(* func itself on the same wrapper takes the steps of a call that runs     *)
(* wholly while its caller is at "func".                                   *)

\* the positions of a call that has passed the test of line 68 and has not
\* yet assigned self.called on line 70
OnceWindow == {"line69", "func", "store", "line70"}

InitOnceThreads ==
    /\ now = 0
    /\ given = [func |-> "f"]
    /\ Once = Once_init
    /\ hist = <<>>
    /\ threads = <<>>
    /\ After = Unused /\ Partial = Unused /\ Curry = Unused
    /\ Throttle = Unused /\ Debounce = Unused
    /\ funcs = Unused

\* a thread calls the wrapper: Once.__call__(*args, **kargs) begins
Once_begin(pack) ==
    /\ Len(threads) < MaxThreads
    /\ threads' = Append(threads, [pc |-> "line68", pack |-> pack,
                                   racing |-> {}, ret |-> NotInvoked])
    /\ UNCHANGED <<now, given, hist, After, Once, Partial, Curry, Throttle,
                   Debounce, funcs>>

\* line 68: if not self.called.  racing remembers the calls that were
\* between their own test and their assignment of called at this moment.
Once_test(c) ==
    /\ threads[c].pc = "line68"
    /\ threads' = [threads EXCEPT
          ![c].pc = IF Once_guard(Once) THEN "line69" ELSE "line72",
          ![c].racing = {d \in DOMAIN threads \ {c} :
                            threads[d].pc \in OnceWindow}]
    /\ UNCHANGED <<now, given, hist, After, Once, Partial, Curry, Throttle,
                   Debounce, funcs>>

\* line 69: self.func(*args, **kargs) is entered
Once_func(c) ==
    /\ threads[c].pc = "line69"
    /\ threads' = [threads EXCEPT ![c].pc = "func"]
    /\ UNCHANGED <<now, given, hist, After, Once, Partial, Curry, Throttle,
                   Debounce, funcs>>

\* line 69: func returns a value, or raises and ends the call
Once_func_done(c, fout) ==
    /\ threads[c].pc = "func"
    /\ IF fout = Raised
       THEN /\ threads' = [threads EXCEPT ![c].pc = "done"]
            /\ hist' = Append(hist, [t |-> now, pack |-> threads[c].pack,
                                     invoked |-> TRUE, fpack |-> threads[c].pack,
                                     fout |-> fout, out |-> Raised, call |-> c])
       ELSE /\ threads' = [threads EXCEPT ![c].pc = "store", ![c].ret = fout]
            /\ hist' = hist
    /\ UNCHANGED <<now, given, After, Once, Partial, Curry, Throttle,
                   Debounce, funcs>>

\* line 69: self.result = (the value func returned)
Once_store(c) ==
    /\ threads[c].pc = "store"
    /\ Once' = [Once EXCEPT !.result = threads[c].ret]
    /\ threads' = [threads EXCEPT ![c].pc = "line70"]
    /\ UNCHANGED <<now, given, hist, After, Partial, Curry, Throttle,
                   Debounce, funcs>>

\* line 70: self.called = True
Once_mark(c) ==
    /\ threads[c].pc = "line70"
    /\ Once' = [Once EXCEPT !.called = TRUE]
    /\ threads' = [threads EXCEPT ![c].pc = "line72"]
    /\ UNCHANGED <<now, given, hist, After, Partial, Curry, Throttle,
                   Debounce, funcs>>

\* line 72: return self.result
Once_return(c) ==
    /\ threads[c].pc = "line72"
    /\ threads' = [threads EXCEPT ![c].pc = "done"]
    /\ hist' = Append(hist,
          [t |-> now, pack |-> threads[c].pack,
           invoked |-> threads[c].ret # NotInvoked,
           fpack |-> IF threads[c].ret # NotInvoked THEN threads[c].pack
                     ELSE NoArgs,
           fout |-> threads[c].ret, out |-> Once.result, call |-> c])
    /\ UNCHANGED <<now, given, After, Once, Partial, Curry, Throttle,
                   Debounce, funcs>>

NextOnceThreads ==
    \/ \E pack \in PassedPacks : Once_begin(pack)
    \/ \E c \in DOMAIN threads :
          \/ Once_test(c)
          \/ Once_func(c)
          \/ \E fout \in FOutcomes : Once_func_done(c, fout)
          \/ Once_store(c)
          \/ Once_mark(c)
          \/ Once_return(c)

SpecOnceThreads == InitOnceThreads /\ [][NextOnceThreads]_vars

\* the calls in which func returned a value
OnceFuncReturned == {c \in DOMAIN threads : threads[c].ret # NotInvoked}

----------------------------------------------------------------------------
(* Partial                                                                 *)

BoundSeqs == {<<>>, <<1>>, <<1, 2>>, <<2, 1>>}
CallSeqs == {<<>>, <<3>>, <<3, 4>>}
CallDicts == {EmptyDict, [k \in {"key"} |-> 5]}

\* Partial.__init__
Partial_init(args, from_right) == [args |-> args, from_right |-> from_right]

\* the factories partial, partial_right and wrap
partial(args) == Partial_init(args, FALSE)
partial_right(args) == Partial_init(args, TRUE)
wrap(value) == Partial_init(<<value>>, FALSE)

Partial_args_left(self, args) == self.args \o args
\* the positional arguments Partial.__call__ hands to func
Partial_args(self, args) ==
    IF self.from_right THEN args \o self.args ELSE self.args \o args

InitPartial ==
    /\ now = 0
    /\ \/ \E b \in BoundSeqs :
            /\ given = [factory |-> "partial", args |-> b, value |-> 0]
            /\ Partial = partial(b)
       \/ \E b \in BoundSeqs :
            /\ given = [factory |-> "partial_right", args |-> b, value |-> 0]
            /\ Partial = partial_right(b)
       \/ \E v \in {1, 2} :
            /\ given = [factory |-> "wrap", args |-> <<>>, value |-> v]
            /\ Partial = wrap(v)
    /\ hist = <<>>
    /\ After = Unused /\ Once = Unused /\ Curry = Unused
    /\ Throttle = Unused /\ Debounce = Unused
    /\ funcs = Unused /\ threads = Unused

\* Partial.__call__(*args, **kargs)
Partial_call(pack, fout) ==
    /\ Len(hist) < MaxPartialCalls
    /\ hist' = Append(hist, [t |-> now, pack |-> pack, invoked |-> TRUE,
                             fpack |-> Pack(Partial_args(Partial, pack.args),
                                            pack.kargs),
                             fout |-> fout, out |-> fout])
    /\ UNCHANGED <<now, given, After, Once, Partial, Curry, Throttle, Debounce,
                 funcs, threads>>

NextPartial ==
    \E a \in CallSeqs, k \in CallDicts, fout \in {"r1", Raised} :
        Partial_call(Pack(a, k), fout)

SpecPartial == InitPartial /\ [][NextPartial]_vars

----------------------------------------------------------------------------
(* Curry                                                                   *)

CurrySeqs == {<<>>, <<1>>, <<2>>, <<1, 2>>}
CurryDicts == {EmptyDict, [k \in {"key"} |-> 1], [k \in {"key"} |-> 2]}

Update_keeps_own(d, e) ==
    [k \in DOMAIN d \cup DOMAIN e |-> IF k \in DOMAIN d THEN d[k] ELSE e[k]]
\* d.update(e): the keys of both, e's value where both have the key
Update(d, e) ==
    [k \in DOMAIN d \cup DOMAIN e |-> IF k \in DOMAIN e THEN e[k] ELSE d[k]]

\* Curry.__init__.  nargs is len(inspect.getargspec(func).args); parent and
\* pack record the call that made the instance (0 and no arguments for the
\* instance curry() returns) and are not fields of the Python object.
Curry_init(nargs, arity, args, kargs, parent, pack) ==
    [arity |-> IF arity.tag = "none" THEN nargs ELSE arity.val,
     args |-> IF args.tag = "none" THEN <<>> ELSE args.val,
     kargs |-> IF kargs.tag = "none" THEN EmptyDict ELSE kargs.val,
     parent |-> parent, pack |-> pack]

\* the factory curry(func, arity=None)
curry(nargs, arity) == Curry_init(nargs, arity, PyNone, PyNone, 0, NoArgs)

Curry_merge_inplace(self, pack) ==
    [self |-> [self EXCEPT !.args = self.args \o pack.args,
                           !.kargs = Update(pack.kargs, self.kargs)],
     args |-> self.args \o pack.args,
     kargs |-> Update(pack.kargs, self.kargs)]
\* lines 47-48 of Curry.__call__: the instance afterwards and the locals
\* args and kargs
Curry_merge(self, pack) ==
    [self |-> self,
     args |-> self.args \o pack.args,
     kargs |-> Update(pack.kargs, self.kargs)]

Curry_full_strict(self, args, kargs) ==
    (Len(args) + Cardinality(DOMAIN kargs)) > self.arity
\* the test of Curry.__call__
Curry_full(self, args, kargs) ==
    (Len(args) + Cardinality(DOMAIN kargs)) >= self.arity

InitCurry ==
    /\ now = 0
    /\ \/ \E a \in 0..MaxArity :
            /\ given = [arity |-> PyInt(a), nargs |-> 0]
            /\ Curry = <<curry(0, PyInt(a))>>
       \/ \* arity left out: func declares MaxArity positional parameters
          /\ given = [arity |-> PyNone, nargs |-> MaxArity]
          /\ Curry = <<curry(MaxArity, PyNone)>>
    /\ hist = <<>>
    /\ After = Unused /\ Once = Unused /\ Partial = Unused
    /\ Throttle = Unused /\ Debounce = Unused
    /\ funcs = Unused /\ threads = Unused

\* Curry.__call__(*args, **kargs) on instance i.  In this specification hist
\* keeps the latest call only: the instances record their own lineage.
Curry_call(i, pack, fout) ==
    LET m == Curry_merge(Curry[i], pack) IN
    IF Curry_full(m.self, m.args, m.kargs)
    THEN /\ Curry' = [Curry EXCEPT ![i] = m.self]
         /\ hist' = <<[t |-> now, inst |-> i, pack |-> pack, invoked |-> TRUE,
                       fpack |-> Pack(m.args, m.kargs), fout |-> fout,
                       out |-> fout, curried |-> 0]>>
    ELSE /\ fout = Raised
         /\ Len(Curry) < MaxCurried
         /\ Curry' = Append([Curry EXCEPT ![i] = m.self],
                            Curry_init(0, PyInt(m.self.arity), PyTuple(m.args),
                                       PyDict(m.kargs), i, pack))
         /\ hist' = <<[t |-> now, inst |-> i, pack |-> pack, invoked |-> FALSE,
                       fpack |-> NoArgs, fout |-> NotInvoked,
                       out |-> "Curry", curried |-> Len(Curry) + 1]>>

NextCurry ==
    \E i \in 1..Len(Curry), a \in CurrySeqs, k \in CurryDicts,
       fout \in {"r1", Raised} :
        /\ Curry_call(i, Pack(a, k), fout)
        /\ UNCHANGED <<now, given, After, Once, Partial, Throttle, Debounce,
                 funcs, threads>>

SpecCurry == InitCurry /\ [][NextCurry]_vars

\* The positional arguments supplied along the calls that led to instance
\* i, in the order they were supplied, and the keyword names supplied.
RECURSIVE SuppliedArgs(_), SuppliedKeys(_)
SuppliedArgs(i) ==
    IF Curry[i].parent = 0 THEN <<>>
    ELSE SuppliedArgs(Curry[i].parent) \o Curry[i].pack.args
SuppliedKeys(i) ==
    IF Curry[i].parent = 0 THEN {}
    ELSE SuppliedKeys(Curry[i].parent) \cup DOMAIN Curry[i].pack.kargs

----------------------------------------------------------------------------
(* The clock.  utilities.now() is read by the timed adapters; its readings *)
(* never decrease.                                                         *)

Tick ==
    /\ now < MaxTime
    /\ now' = now + 1
    /\ UNCHANGED <<given, hist, After, Once, Partial, Curry, Throttle, Debounce,
                 funcs, threads>>

\* objects.is_number, as far as it decides whether max_wait is a threshold
is_number(v) == v.tag = "int"

----------------------------------------------------------------------------
(* Throttle                                                                *)

\* Throttle.__init__, now() reading t
Throttle_init(wait, t) ==
    [wait |-> wait, last_result |-> None, last_execution |-> t - wait]

Throttle_due_strict(self, present) == (present - self.last_execution) > self.wait
\* the test of Throttle.__call__
Throttle_due(self, present) == (present - self.last_execution) >= self.wait

\* lines 146-147: func returned result
Throttle_ran(self, present, result) ==
    [self EXCEPT !.last_result = result, !.last_execution = present]

Throttle_raised_stamped(self, present) ==
    [self EXCEPT !.last_execution = present]
\* line 146 when func raises: neither assignment happens
Throttle_raised(self, present) == self

InitThrottle ==
    /\ \E wait \in 0..MaxWait, t \in 0..1 :
          /\ given = [wait |-> wait, t |-> t]
          /\ now = t
          /\ Throttle = Throttle_init(wait, t)
    /\ hist = <<>>
    /\ After = Unused /\ Once = Unused /\ Partial = Unused /\ Curry = Unused
    /\ Debounce = Unused
    /\ funcs = Unused /\ threads = Unused

\* Throttle.__call__(*args, **kargs)
Throttle_call(pack, fout) ==
    /\ Len(hist) < MaxTimedCalls
    /\ LET present == now IN
       IF Throttle_due(Throttle, present)
       THEN IF fout = Raised
            THEN /\ Throttle' = Throttle_raised(Throttle, present)
                 /\ hist' = Append(hist, [t |-> present, pack |-> pack,
                                          invoked |-> TRUE, fpack |-> pack,
                                          fout |-> fout, out |-> Raised])
            ELSE /\ Throttle' = Throttle_ran(Throttle, present, fout)
                 /\ hist' = Append(hist, [t |-> present, pack |-> pack,
                                          invoked |-> TRUE, fpack |-> pack,
                                          fout |-> fout,
                                          out |-> Throttle'.last_result])
       ELSE /\ fout = Raised
            /\ Throttle' = Throttle
            /\ hist' = Append(hist, [t |-> present, pack |-> pack,
                                     invoked |-> FALSE, fpack |-> NoArgs,
                                     fout |-> NotInvoked,
                                     out |-> Throttle.last_result])
    /\ UNCHANGED <<now, given, After, Once, Partial, Curry, Debounce,
                 funcs, threads>>

NextThrottle ==
    \/ Tick
    \/ \E pack \in PassedPacks, fout \in FOutcomes : Throttle_call(pack, fout)

SpecThrottle == InitThrottle /\ [][NextThrottle]_vars

----------------------------------------------------------------------------
(* Debounce                                                                *)

MaxWaitInputs == {PyFalse, PyNone} \cup {PyInt(k) : k \in 0..MaxWait}

Debounce_init_unprimed(wait, max_wait, t1, t2) ==
    [wait |-> wait, max_wait |-> max_wait, last_result |-> None,
     last_call |-> t1,
     last_execution |-> IF is_number(max_wait) THEN PyInt(t2 - max_wait.val)
                        ELSE PyNone]
\* Debounce.__init__; t1 and t2 are its two now() readings (lines 107, 108)
Debounce_init(wait, max_wait, t1, t2) ==
    [wait |-> wait, max_wait |-> max_wait, last_result |-> None,
     last_call |-> t1 - wait,
     last_execution |-> IF is_number(max_wait) THEN PyInt(t2 - max_wait.val)
                        ELSE PyNone]

\* The list any() is given is built whole: with a max_wait that is true and
\* no last_execution, present - None raises TypeError.
Debounce_type_error(self) ==
    Truthy(self.max_wait) /\ self.last_execution.tag = "none"

\* the test of Debounce.__call__ (lines 118-120)
Debounce_due(self, present) ==
    \/ (present - self.last_call) >= self.wait
    \/ /\ Truthy(self.max_wait)
       /\ (present - self.last_execution.val) >= self.max_wait.val

\* lines 121-122: func returned result
Debounce_ran(self, present, result) ==
    [self EXCEPT !.last_result = result, !.last_execution = PyInt(present)]

Debounce_called_when_ran(self, present, ran) ==
    IF ran THEN [self EXCEPT !.last_call = present] ELSE self
\* line 124; ran tells whether this call executed func
Debounce_called(self, present, ran) == [self EXCEPT !.last_call = present]

\* line 121 when func raises: lines 121-124 assign nothing
Debounce_raised(self, present) == self

InitDebounce ==
    /\ \E wait \in 0..MaxWait, max_wait \in MaxWaitInputs,
          t1 \in 0..1, d \in 0..1 :
          /\ given = [wait |-> wait, max_wait |-> max_wait,
                      t1 |-> t1, t2 |-> t1 + d]
          /\ now = t1 + d
          /\ Debounce = Debounce_init(wait, max_wait, t1, t1 + d)
    /\ hist = <<>>
    /\ After = Unused /\ Once = Unused /\ Partial = Unused /\ Curry = Unused
    /\ Throttle = Unused
    /\ funcs = Unused /\ threads = Unused

\* Debounce.__call__(*args, **kargs)
Debounce_call(pack, fout) ==
    /\ Len(hist) < MaxTimedCalls
    /\ LET present == now IN
       IF Debounce_type_error(Debounce)
       THEN /\ fout = Raised
            /\ Debounce' = Debounce
            /\ hist' = Append(hist, [t |-> present, pack |-> pack,
                                     invoked |-> FALSE, fpack |-> NoArgs,
                                     fout |-> NotInvoked, out |-> "TypeError"])
       ELSE IF Debounce_due(Debounce, present)
       THEN IF fout = Raised
            THEN /\ Debounce' = Debounce_raised(Debounce, present)
                 /\ hist' = Append(hist, [t |-> present, pack |-> pack,
                                          invoked |-> TRUE, fpack |-> pack,
                                          fout |-> fout, out |-> Raised])
            ELSE /\ Debounce' = Debounce_called(
                                   Debounce_ran(Debounce, present, fout),
                                   present, TRUE)
                 /\ hist' = Append(hist, [t |-> present, pack |-> pack,
                                          invoked |-> TRUE, fpack |-> pack,
                                          fout |-> fout,
                                          out |-> Debounce'.last_result])
       ELSE /\ fout = Raised
            /\ Debounce' = Debounce_called(Debounce, present, FALSE)
            /\ hist' = Append(hist, [t |-> present, pack |-> pack,
                                     invoked |-> FALSE, fpack |-> NoArgs,
                                     fout |-> NotInvoked,
                                     out |-> Debounce'.last_result])
    /\ UNCHANGED <<now, given, After, Once, Partial, Curry, Throttle,
                 funcs, threads>>

NextDebounce ==
    \/ Tick
    \/ \E pack \in PassedPacks, fout \in FOutcomes : Debounce_call(pack, fout)

SpecDebounce == InitDebounce /\ [][NextDebounce]_vars

----------------------------------------------------------------------------
(* Throttle and Debounce, the two adapters that read the clock: a program  *)
(* holds one or the other                                                  *)

InitTimed == InitThrottle \/ InitDebounce

NextTimed ==
    \/ "wait" \in DOMAIN Throttle /\ NextThrottle
    \/ "wait" \in DOMAIN Debounce /\ NextDebounce

SpecTimed == InitTimed /\ [][NextTimed]_vars

----------------------------------------------------------------------------
(* compose                                                                 *)

\* compose(*funcs) with n functions: they are named by their position
ComposeArgs(n) == [i \in 1..n |-> IF i = 1 THEN "f1" ELSE IF i = 2 THEN "f2"
                                   ELSE IF i = 3 THEN "f3" ELSE "fn"]

\* What each function does if it is invoked.  Functions run from the last
\* to the first, and nothing runs after one that raises.
ComposeOutcomes(n) ==
    {outs \in [1..n -> FOutcomes] :
        \A k \in 1..n : outs[k] = Raised => \A j \in 1..(k - 1) : outs[j] = Raised}

Compose_order_forward(m) == [i \in 1..m |-> i]
\* reversed(fns), as positions in fns, for the m functions left after the pop
Compose_order(m) == [i \in 1..m |-> m - i + 1]

\* the loop of lines 173-174 from step j of order, ret being the result so
\* far: the invocations made
RECURSIVE Compose_loop(_, _, _, _, _)
Compose_loop(fns, order, j, ret, outs) ==
    IF j > Len(order) THEN <<>>
    ELSE LET k == order[j] IN
         <<[fn |-> k, name |-> fns[k], pack |-> NoArgs, arg |-> ret,
            out |-> outs[k]]>>
         \o (IF outs[k] = Raised THEN <<>>
             ELSE Compose_loop(fns, order, j + 1, outs[k], outs))

\* lines 168-176 for a non-empty funcs: the invocations made
Compose_run(fs, pack, outs) ==
    LET fns == fs          \* list(funcs)
        n == Len(fns)      \* fns.pop() takes fns[n]
    IN <<[fn |-> n, name |-> fns[n], pack |-> pack, arg |-> NotInvoked,
          out |-> outs[n]]>>
       \o (IF outs[n] = Raised THEN <<>>
           ELSE Compose_loop(fns, Compose_order(n - 1), 1, outs[n], outs))

InitCompose ==
    /\ now = 0
    /\ \E n \in 0..MaxFuncs : /\ given = [funcs |-> ComposeArgs(n)]
                              /\ funcs = ComposeArgs(n)
    /\ hist = <<>>
    /\ After = Unused /\ Once = Unused /\ Partial = Unused /\ Curry = Unused
    /\ Throttle = Unused /\ Debounce = Unused /\ threads = Unused

\* wrapper(*args, **kargs), the function compose() returns
wrapper(pack, outs) ==
    /\ Len(hist) < MaxComposeCalls
    /\ IF Len(funcs) = 0
       THEN \* line 171: pop from an empty list
            hist' = Append(hist, [t |-> now, pack |-> pack, invoked |-> FALSE,
                                  calls |-> <<>>, out |-> "IndexError"])
       ELSE LET calls == Compose_run(funcs, pack, outs) IN
            hist' = Append(hist, [t |-> now, pack |-> pack, invoked |-> TRUE,
                                  calls |-> calls,
                                  out |-> calls[Len(calls)].out])
    /\ UNCHANGED <<now, given, After, Once, Partial, Curry, Throttle, Debounce,
                   funcs, threads>>

NextCompose ==
    \E pack \in PassedPacks, outs \in ComposeOutcomes(Len(funcs)) :
        wrapper(pack, outs)

SpecCompose == InitCompose /\ [][NextCompose]_vars

----------------------------------------------------------------------------
(* What the log of calls says, for the timed adapters.                     *)

\* call i ran func and func returned
Executed(i) == hist[i].invoked /\ hist[i].fout # Raised
\* call i returned to its caller
Returned(i) == hist[i].out \notin {Raised, "TypeError"}

Latest(S) == CHOOSE j \in S : \A k \in S : k <= j

\* the calls before call i (or up to it) in which func ran and returned
ExecutedBefore(i) == {j \in 1..(i - 1) : Executed(j)}
ExecutedUpTo(i) == {j \in 1..i : Executed(j)}
ReturnedBefore(i) == {j \in 1..(i - 1) : Returned(j)}

\* After: the count After.__init__ is to store for the n it was given
AfterGivenCount ==
    IF given.n.tag \in {"int", "numstr"} /\ given.n.val >= 0 THEN given.n.val
    ELSE 0

\* The keyword arguments supplied along the calls that led to Curry
\* instance i, each name with the value of the first call that gave it.
RECURSIVE FirstSupplied(_)
FirstSupplied(i) ==
    IF Curry[i].parent = 0 THEN EmptyDict
    ELSE LET earlier == FirstSupplied(Curry[i].parent)
             later == Curry[i].pack.kargs
         IN [k \in DOMAIN earlier \cup DOMAIN later |->
                IF k \in DOMAIN earlier THEN earlier[k] ELSE later[k]]

\* Throttle: the reading at which func last ran and returned before call i,
\* the constructor's seed when it has not
ThrottleLastExecution(i) ==
    IF ExecutedBefore(i) = {} THEN given.t - given.wait
    ELSE hist[Latest(ExecutedBefore(i))].t

\* Debounce: the reading of the last call that returned before call i, and
\* the reading at which func last ran and returned; the seeds when none did
DebounceLastCall(i) ==
    IF ReturnedBefore(i) = {} THEN given.t1 - given.wait
    ELSE hist[Latest(ReturnedBefore(i))].t
DebounceLastExecution(i) ==
    IF ExecutedBefore(i) = {} THEN given.t2 - given.max_wait.val
    ELSE hist[Latest(ExecutedBefore(i))].t

\* the arity a Curry instance was given
GivenArity == IF given.arity.tag = "none" THEN given.nargs ELSE given.arity.val

----------------------------------------------------------------------------
(* Properties.                                                             *)

\* C1: with n >= 0 given to after(n, f), calls 1..n-1 do not invoke f and
\* return None; call n and every later call invoke f with the call's own
\* arguments and return what f returns (f's exception when it raises).
\* With n = 0 the first call invokes f.
AfterInvokesFromNthCall ==
    (given.n.tag = "int" /\ given.n.val >= 0) =>
        \A i \in 1..Len(hist) :
            IF i < given.n.val
            THEN ~hist[i].invoked /\ hist[i].out = None
            ELSE /\ hist[i].invoked
                 /\ hist[i].fpack = hist[i].pack
                 /\ hist[i].out = hist[i].fout

AfterThirdCallRuns ==
    /\ given.n = PyInt(3)
    /\ Len(hist) = 4
    /\ ~hist[1].invoked /\ ~hist[2].invoked
    /\ hist[3].out = "r1"
    /\ hist[4].out = "r2"

\* C2: over any sequence of calls to once(f), f is invoked on the first
\* call with that call's arguments and on no later call, and every later
\* call returns what the first call returned.
OnceInvokesFuncOnce ==
    Len(hist) >= 1 =>
        /\ hist[1].invoked
        /\ hist[1].fpack = hist[1].pack
        /\ \A i \in 2..Len(hist) :
              ~hist[i].invoked /\ hist[i].out = hist[1].out

\* C3: the first call to a throttled function invokes f; a call at reading
\* t invokes f exactly when t - (reading of the last execution) >= wait,
\* and then returns f's result; any other call returns the result of the
\* most recent execution without invoking f.
ThrottleCallsGated ==
    \A i \in 1..Len(hist) :
        /\ i = 1 => hist[i].invoked
        /\ hist[i].invoked <=>
              (hist[i].t - ThrottleLastExecution(i)) >= given.wait
        /\ hist[i].invoked => hist[i].out = hist[i].fout
        /\ ~hist[i].invoked =>
              /\ ExecutedBefore(i) # {}
              /\ hist[i].out = hist[Latest(ExecutedBefore(i))].fout

ThrottleSkipsThenRuns ==
    /\ given.wait = 2
    /\ Len(hist) = 3
    /\ hist[1].out = "r1"
    /\ hist[2].t = hist[1].t + 1
    /\ ~hist[2].invoked /\ hist[2].out = "r1"
    /\ hist[3].t = hist[1].t + 2
    /\ hist[3].invoked /\ hist[3].out = "r2"

\* C4: any two invocations of f made through one throttled function happen
\* at clock readings at least wait apart.
ThrottleInvocationsApart ==
    \A i, j \in 1..Len(hist) :
        (i < j /\ hist[i].invoked /\ hist[j].invoked) =>
            (hist[j].t - hist[i].t) >= given.wait

\* C5: a call to a debounced function invokes f only when wait has passed
\* since the last call, or max_wait is a number and max_wait has passed
\* since the last execution.
DebounceRunsOnlyWhenDue ==
    \A i \in 1..Len(hist) :
        hist[i].invoked =>
            \/ (hist[i].t - DebounceLastCall(i)) >= given.wait
            \/ /\ is_number(given.max_wait)
               /\ (hist[i].t - DebounceLastExecution(i)) >= given.max_wait.val

DebounceRunsByMaxWait ==
    \E i \in 1..Len(hist) :
        /\ hist[i].invoked
        /\ hist[i].out = "r2"
        /\ (hist[i].t - DebounceLastCall(i)) < given.wait
        /\ (hist[i].t - DebounceLastExecution(i)) >= given.max_wait.val

\* C6: when max_wait is a number >= 0, every call made max_wait or more
\* after the last execution invokes f; when max_wait is False or None, f is
\* invoked exactly when wait has passed since the last call.
DebounceMaxWaitGates ==
    /\ (is_number(given.max_wait) /\ given.max_wait.val >= 0) =>
          \A i \in 1..Len(hist) :
              (hist[i].t - DebounceLastExecution(i)) >= given.max_wait.val
                  => hist[i].invoked
    /\ ~is_number(given.max_wait) =>
          \A i \in 1..Len(hist) :
              hist[i].invoked <=>
                  (hist[i].t - DebounceLastCall(i)) >= given.wait

PartialArgumentOrder ==
    LET bound == IF given.factory = "wrap" THEN <<given.value>>
                 ELSE given.args
    IN /\ Partial.args = bound
       /\ \A i \in 1..Len(hist) :
             /\ hist[i].invoked
             /\ hist[i].fpack.kargs = hist[i].pack.kargs
             /\ hist[i].fpack.args =
                   IF given.factory = "partial_right"
                   THEN hist[i].pack.args \o bound
                   ELSE bound \o hist[i].pack.args
             /\ hist[i].out = hist[i].fout

PartialRightTwice ==
    /\ given.factory = "partial_right"
    /\ given.args = <<1, 2>>
    /\ Len(hist) = 2
    /\ hist[1].fpack.args = <<3, 4, 1, 2>>
    /\ hist[2].fpack = Pack(<<3, 1, 2>>, [k \in {"key"} |-> 5])

\* C9: a call to a curried function invokes f exactly when the arguments
\* supplied so far (positional, and keyword names) number at least arity,
\* and then f gets the positional arguments in the order they were
\* supplied; no instance holds arity arguments or more.
CurryInvokesAtArity ==
    /\ \A i \in 2..Len(Curry) :
          Len(SuppliedArgs(i)) + Cardinality(SuppliedKeys(i)) < GivenArity
    /\ \A c \in 1..Len(hist) :
          LET call == hist[c]
              supplied == SuppliedArgs(call.inst) \o call.pack.args
              names == SuppliedKeys(call.inst) \cup DOMAIN call.pack.kargs
          IN IF Len(supplied) + Cardinality(names) < GivenArity
             THEN ~call.invoked /\ call.curried = Len(Curry)
             ELSE /\ call.invoked
                  /\ call.fpack.args = supplied
                  /\ call.out = call.fout

CurryOneByOne ==
    /\ GivenArity = 2
    /\ Len(hist) = 1
    /\ hist[1].inst = 2
    /\ Curry[2].parent = 1 /\ Curry[2].pack = Pack(<<1>>, EmptyDict)
    /\ hist[1].pack = Pack(<<2>>, EmptyDict)
    /\ hist[1].fpack.args = <<1, 2>>
    /\ hist[1].out = "r1"

\* C10: a call to a Curry instance leaves every instance that exists as it
\* was (arity, args, kargs), whether the call makes a new instance or
\* invokes f; so every instance holds the arguments of its own chain of
\* calls and no others.
CurryCallLeavesInstances ==
    /\ [][\A i \in 1..Len(Curry) : Curry'[i] = Curry[i]]_vars
    /\ [](\A i \in 1..Len(Curry) :
            /\ Curry[i].arity = GivenArity
            /\ Curry[i].args = SuppliedArgs(i)
            /\ DOMAIN Curry[i].kargs = SuppliedKeys(i))

CurryTwoPaths ==
    /\ Len(Curry) = 3
    /\ Curry[2].parent = 1 /\ Curry[2].args = <<1>>
    /\ Curry[3].parent = 1 /\ Curry[3].args = <<2>>
    /\ Len(hist) = 1 /\ hist[1].inst = 2 /\ hist[1].invoked
    /\ hist[1].fpack.args = <<1, 2>>

\* C11: in curry a keyword name supplied again keeps the value of the
\* earlier call, positional arguments of later calls follow the earlier
\* ones, and a call that gives only names already supplied adds nothing to
\* the count of arguments: it does not invoke f and the instance it makes
\* holds the same keyword arguments.
CurryFirstKeywordWins ==
    /\ \A i \in 1..Len(Curry) :
          /\ Curry[i].kargs = FirstSupplied(i)
          /\ Curry[i].args = SuppliedArgs(i)
    /\ \A c \in 1..Len(hist) :
          LET call == hist[c]
              earlier == FirstSupplied(call.inst)
              later == call.pack.kargs
          IN /\ call.invoked =>
                  /\ call.fpack.args =
                        SuppliedArgs(call.inst) \o call.pack.args
                  /\ call.fpack.kargs =
                        [k \in DOMAIN earlier \cup DOMAIN later |->
                            IF k \in DOMAIN earlier THEN earlier[k]
                            ELSE later[k]]
             /\ (/\ call.pack.args = <<>>
                 /\ later # EmptyDict
                 /\ DOMAIN later \subseteq DOMAIN earlier) =>
                    /\ ~call.invoked
                    /\ Curry[call.curried].kargs = Curry[call.inst].kargs

CurryKeywordGivenTwice ==
    /\ GivenArity = 2
    /\ Len(hist) = 1
    /\ hist[1].inst = 2
    /\ Curry[2].kargs = [k \in {"key"} |-> 1]
    /\ hist[1].pack = Pack(<<2>>, [k \in {"key"} |-> 2])
    /\ hist[1].invoked
    /\ hist[1].fpack = Pack(<<2>>, [k \in {"key"} |-> 1])

\* C12: every call of compose(f1, ..., fn), n >= 1, invokes fn with the
\* call's arguments, then f(n-1), ..., f1 in that order, each once and with
\* the result of the one before, and returns f1's result (a function that
\* raises ends the call with its exception); funcs is left as given, so
\* every call runs the same chain.
ComposeRightToLeft ==
    LET n == Len(given.funcs) IN
    n >= 1 =>
        /\ funcs = given.funcs
        /\ \A c \in 1..Len(hist) :
              LET calls == hist[c].calls IN
              /\ Len(calls) >= 1
              /\ calls[1].fn = n /\ calls[1].pack = hist[c].pack
              /\ \A j \in 2..Len(calls) :
                    /\ calls[j].fn = n - j + 1
                    /\ calls[j].arg = calls[j - 1].out
                    /\ calls[j].pack = NoArgs
              /\ \A j \in 1..Len(calls) : calls[j].name = given.funcs[calls[j].fn]
              /\ IF \E j \in 1..Len(calls) : calls[j].out = Raised
                 THEN /\ calls[Len(calls)].out = Raised
                      /\ hist[c].out = Raised
                 ELSE /\ Len(calls) = n
                      /\ hist[c].out = calls[n].out

ComposeThreeTwice ==
    /\ Len(given.funcs) = 3
    /\ Len(hist) = 2
    /\ Len(hist[1].calls) = 3
    /\ hist[1].calls[1].name = "f3" /\ hist[1].calls[1].out = "r1"
    /\ hist[1].calls[2].name = "f2" /\ hist[1].calls[2].arg = "r1"
    /\ hist[1].calls[2].out = "r2"
    /\ hist[1].calls[3].name = "f1" /\ hist[1].calls[3].arg = "r2"
    /\ hist[1].out = "r1"
    /\ Len(hist[2].calls) = 3 /\ hist[2].out = "r2"

\* C13: a call of the function compose() returns, compose having been
\* given no functions, fails with an InvalidArgument error.
ComposeNothingIsInvalidArgument ==
    Len(given.funcs) = 0 =>
        \A c \in 1..Len(hist) : hist[c].out = "InvalidArgument"

\* C14: after(n, f) never fails to build the instance, and for an n that
\* int() cannot parse (a non-numeric string, None) or that is negative the
\* count starts at 0, so the first call invokes f.
AfterConstructionNeverFails ==
    /\ After.ok
    /\ (given.n.tag \in {"badstr", "none"} \/ given.n.val < 0) =>
          /\ After.n = 0 - Len(hist)
          /\ Len(hist) >= 1 => hist[1].invoked

\* C15 as stated: After.n is never negative.
AfterCountNeverNegative ==
    After.ok => After.n >= 0

\* C15: After.n is the count stored at construction, which is >= 0, less
\* one for every call made, whether or not the call invoked f; it never
\* increases and it is negative once more calls than that count were made.
AfterCountDecreases ==
    /\ After.ok => /\ AfterGivenCount >= 0
                   /\ After.n = AfterGivenCount - Len(hist)
    /\ \A i \in 1..Len(hist) : hist[i].invoked <=> i >= AfterGivenCount

AfterCountBelowZero ==
    /\ given.n = PyInt(1)
    /\ Len(hist) = 3
    /\ After.n = -2
    /\ hist[1].invoked /\ hist[3].invoked

\* C16: every call to a debounced function sets last_call to the call's
\* clock reading, whether or not f was invoked; last_execution and
\* last_result are those of the last call in which f ran.
DebounceEveryCallSetsLastCall ==
    LET n == Len(hist) IN
    /\ n >= 1 => Debounce.last_call = hist[n].t
    /\ Debounce.last_result =
          IF ExecutedUpTo(n) = {} THEN None
          ELSE hist[Latest(ExecutedUpTo(n))].fout
    /\ ExecutedUpTo(n) # {} =>
          Debounce.last_execution = PyInt(hist[Latest(ExecutedUpTo(n))].t)
    /\ ExecutedUpTo(n) = {} =>
          Debounce.last_execution =
              Debounce_init(given.wait, given.max_wait, given.t1,
                            given.t2).last_execution

\* C17: with max_wait False or None and wait > 0, the first call to a
\* debounced function invokes f and, in a run of calls each made less than
\* wait after the one before, no later call does.
DebounceBurstRunsOnce ==
    (~is_number(given.max_wait) /\ given.wait > 0) =>
        \A i \in 1..Len(hist) :
            IF i = 1 THEN hist[i].invoked
            ELSE (\A j \in 2..i : (hist[j].t - hist[j - 1].t) < given.wait)
                    => ~hist[i].invoked

====
